---- MODULE Spec2Model ----
(***************************************************************************)
(* Model of GotDownloader.download (src/src/GotDownloader.ts).            *)
(*                                                                         *)
(* One record per download call holds the locals of the async function    *)
(* (downloadCompleted, bar, progressPercent, timeout), the two streams,   *)
(* the promise created at line 59 and the result of the call itself.      *)
(* The event loop is modelled by one action per event handler; a settled  *)
(* promise whose continuation has not run yet (a queued microtask) blocks *)
(* every other event, as it does in the runtime.                          *)
(***************************************************************************)
EXTENDS Integers, Sequences, FiniteSets, TLC

\* ---------------------------------------------------------------- bounds
PROGRESS_BAR_DELAY_IN_SECONDS == 30
\* seconds the clock advances in one step
TickSeconds == 30
\* last instant of the clock
MaxTime == 60
\* length of the response body, in chunks
MaxBytes == 2
\* transfer-progress events delivered to one call
MaxProgress == 2

CallIds == {1, 2}
\* URLs a caller asks for, and URLs a response can come from (a redirect
\* makes the two differ)
URLs == {"host/a.zip"}
ResponseURLs == {"host/a.zip", "mirror/a.zip"}
QuietValues == {"true", "false", "absent"}
EnvValues == {"", "1"}

\* ------------------------------------------------------------ JS values
Num(n) == [tag |-> "number", val |-> n]
NaN == [tag |-> "NaN", val |-> 0]
Infinity == [tag |-> "Infinity", val |-> 0]
Undefined == [tag |-> "undefined", val |-> 0]

\* truthiness of the option `quiet` (true, false or absent)
TruthyQuiet(q) == q = "true"
\* truthiness of process.env.ELECTRON_GET_NO_PROGRESS (a string or unset)
TruthyEnv(e) == e # ""

\* ---------------------------------------------------------------- errors
NoError == [kind |-> "none", statusCode |-> 0, url |-> "", message |-> <<>>]
HTTPError(status, respUrl) ==
  [kind |-> "HTTPError", statusCode |-> status, url |-> respUrl,
   message |-> <<"Response code", IF status = 404 THEN "404" ELSE "500">>]
RequestError ==
  [kind |-> "RequestError", statusCode |-> 0, url |-> "", message |-> <<"ECONNREFUSED">>]
SinkError ==
  [kind |-> "WriteError", statusCode |-> 0, url |-> "", message |-> <<"ENOSPC">>]
MkdirpError ==
  [kind |-> "MkdirpError", statusCode |-> 0, url |-> "", message |-> <<"EACCES">>]
CallbackError ==
  [kind |-> "CallbackError", statusCode |-> 0, url |-> "", message |-> <<"callback failed">>]

\* what the download stream of a request for url can fail with
TransportErrors(url) ==
  {HTTPError(404, u) : u \in ResponseURLs} \cup {HTTPError(500, url), RequestError}

\* does the message mention the text t
Contains(message, t) == \E i \in 1..Len(message) : message[i] = t

\* ------------------------------------------------------- a download call
NoTimeout == [state |-> "none", start |-> 0, deadline |-> 0]
NoBar == [exists |-> FALSE, curr |-> Undefined, start |-> 0, created |-> 0]
NoWriteStream ==
  [state |-> "none", destroyed |-> FALSE, error |-> NoError,
   errorPending |-> FALSE, closeEmitted |-> FALSE, written |-> 0]
NoDownloadStream ==
  [state |-> "none", piped |-> FALSE, received |-> 0, total |-> 0, error |-> NoError]
PendingPromise == [state |-> "pending", reason |-> NoError]
NoOutcome == [state |-> "none", error |-> NoError]

IdleCall ==
  [pc |-> "idle", url |-> "", quiet |-> "absent", getProgressCallback |-> FALSE,
   downloadCompleted |-> FALSE, bar |-> NoBar, progressPercent |-> Undefined,
   timeout |-> NoTimeout, writeStream |-> NoWriteStream,
   downloadStream |-> NoDownloadStream, promise |-> PendingPromise,
   outcome |-> NoOutcome, progressEvents |-> <<>>, callbacks |-> <<>>,
   barsCreated |-> 0, calledAt |-> 0, settledAt |-> 0]

VARIABLES calls, now, env, callable
vars == <<calls, now, env, callable>>

Call(c) == calls[c]
Settled(s) == s.outcome.state # "none"
WriteStreamClosed(ws) == ws.destroyed \/ ws.state = "closed"
DownloadStreamClosed(rs) == rs.state \in {"ended", "errored"}

\* --------------------------------------------------- runtime primitives
\* a resolve() that overwrites a settled promise
ResolveUnguarded(p) == [state |-> "resolved", reason |-> NoError]

\* resolve() of the promise created at line 59: a settled promise ignores it
Resolve(p) ==
  IF p.state = "pending" THEN [state |-> "resolved", reason |-> NoError] ELSE p

\* reject(error) of the promise created at line 59
Reject(p, error) ==
  IF p.state = "pending" THEN [state |-> "rejected", reason |-> error] ELSE p

\* writeStream.destroy(error): the first destroy wins, the stream will emit
\* 'error' and then 'close'
Destroy(ws, error) ==
  IF ws.destroyed \/ ws.state = "closed"
  THEN ws
  ELSE [ws EXCEPT !.destroyed = TRUE, !.error = error, !.errorPending = TRUE]

\* the division with its operands exchanged
PercentSwapped(progress) ==
  IF progress.transferred = 0
  THEN IF progress.total = 0 THEN NaN ELSE Infinity
  ELSE Num((200 * progress.total + progress.transferred) \div (2 * progress.transferred))

\* Math.round((progress.transferred / progress.total) * 100), line 62
Percent(progress) ==
  IF progress.total = 0
  THEN IF progress.transferred = 0 THEN NaN ELSE Infinity
  ELSE Num((200 * progress.transferred + progress.total) \div (2 * progress.total))

\* ------------------------------------------------------------- handlers
\* line 42: the condition under which the activation timer is armed
ShouldArmTimer(quiet, noProgress) ==
  ~TruthyQuiet(quiet) \/ ~TruthyEnv(noProgress)

\* lines 40-60 and 83: the synchronous run from the return of mkdirp to the
\* suspension at the promise of line 59
OpenStreams(s, t, noProgress, total) ==
  [s EXCEPT
     !.pc = "awaiting",
     !.writeStream = [NoWriteStream EXCEPT !.state = "open"],
     !.timeout =
        IF ShouldArmTimer(s.quiet, noProgress)
        THEN [state |-> "armed", start |-> t,
              deadline |-> t + PROGRESS_BAR_DELAY_IN_SECONDS]
        ELSE NoTimeout,
     !.downloadStream =
        [NoDownloadStream EXCEPT !.state = "open", !.piped = TRUE, !.total = total],
     !.promise = PendingPromise]

\* a bar left with the start time of its own construction (line 55 missing)
NewProgressBarStartsNow(curr, start, t) ==
  [exists |-> TRUE,
   curr |-> IF curr \in {Undefined, NaN, Num(0)} THEN Num(0) ELSE curr,
   start |-> t, created |-> t]

\* lines 46-55: new ProgressBar(format, {curr, total: 100}) followed by the
\* assignment of its start; the constructor of the progress package reads
\* the option as `options.curr || 0`
NewProgressBar(curr, start, t) ==
  [exists |-> TRUE,
   curr |-> IF curr \in {Undefined, NaN, Num(0)} THEN Num(0) ELSE curr,
   start |-> start, created |-> t]

\* a timer that re-arms itself (setInterval in place of setTimeout)
TimeoutCallbackRepeating(s, t) ==
  IF ~s.downloadCompleted
  THEN [s EXCEPT
          !.timeout.deadline = t + PROGRESS_BAR_DELAY_IN_SECONDS,
          !.bar = NewProgressBar(s.progressPercent, s.timeout.start, t),
          !.barsCreated = @ + 1]
  ELSE [s EXCEPT !.timeout.deadline = t + PROGRESS_BAR_DELAY_IN_SECONDS]

\* a timer that gives up on the transfer when it fires
TimeoutCallbackAborts(s, t) ==
  IF ~s.downloadCompleted
  THEN [s EXCEPT
          !.timeout.state = "fired",
          !.bar = NewProgressBar(s.progressPercent, s.timeout.start, t),
          !.barsCreated = @ + 1,
          !.writeStream = Destroy(@, RequestError)]
  ELSE [s EXCEPT !.timeout.state = "fired"]

\* lines 44-57: the callback given to setTimeout
TimeoutCallback(s, t) ==
  IF ~s.downloadCompleted
  THEN [s EXCEPT
          !.timeout.state = "fired",
          !.bar = NewProgressBar(s.progressPercent, s.timeout.start, t),
          !.barsCreated = @ + 1]
  ELSE [s EXCEPT !.timeout.state = "fired"]

\* a listener that reaches the callback only when the bar exists
OnDownloadProgressBarOnly(s, progress) ==
  LET calculatedPercent == Percent(progress) IN
  [s EXCEPT
     !.bar = IF @.exists THEN [@ EXCEPT !.curr = calculatedPercent] ELSE @,
     !.callbacks =
        IF s.bar.exists /\ s.getProgressCallback
        THEN Append(@, [progress |-> progress, state |-> "pending"])
        ELSE @]

\* lines 61-69: the 'downloadProgress' listener, up to its suspension at the
\* await of line 67
OnDownloadProgress(s, progress) ==
  LET calculatedPercent == Percent(progress) IN
  [s EXCEPT
     !.bar = IF @.exists THEN [@ EXCEPT !.curr = calculatedPercent] ELSE @,
     !.callbacks =
        IF s.getProgressCallback
        THEN Append(@, [progress |-> progress, state |-> "pending"])
        ELSE @]

\* a classification that tests for the wrong status
ClassifyWrongStatus(error) ==
  IF error.kind = "HTTPError" /\ error.statusCode = 400
  THEN [error EXCEPT !.message = @ \o <<"for", error.url>>]
  ELSE error

\* lines 71-73: a 404 response gets the response URL appended to its message
Classify(error) ==
  IF error.kind = "HTTPError" /\ error.statusCode = 404
  THEN [error EXCEPT !.message = @ \o <<"for", error.url>>]
  ELSE error

\* lines 70-79: the 'error' listener of the download stream
OnDownloadStreamError(s, error) ==
  LET classified == Classify(error) IN
  [s EXCEPT
     !.writeStream = Destroy(@, classified),
     !.promise = Reject(@, classified)]

\* line 80: the 'error' listener of the write stream
OnWriteStreamError(s, error) ==
  [s EXCEPT !.promise = Reject(@, error)]

\* a 'close' that nobody listens to
OnWriteStreamCloseIgnored(s) == s

\* line 81: the 'close' listener of the write stream
OnWriteStreamClose(s) ==
  [s EXCEPT !.promise = Resolve(@)]

\* a continuation that sets the flag but leaves the timer armed
AfterPromiseNoClear(s, t) ==
  IF s.promise.state = "resolved"
  THEN [s EXCEPT
          !.downloadCompleted = TRUE,
          !.pc = "returned",
          !.outcome = [state |-> "Success", error |-> NoError],
          !.settledAt = t]
  ELSE [s EXCEPT
          !.pc = "threw",
          !.outcome = [state |-> "Failure", error |-> s.promise.reason],
          !.settledAt = t]

\* lines 59 and 86-90: the continuation of the await of line 59
AfterPromise(s, t) ==
  IF s.promise.state = "resolved"
  THEN [s EXCEPT
          !.downloadCompleted = TRUE,
          !.timeout.state = IF @ = "armed" THEN "cleared" ELSE @,
          !.pc = "returned",
          !.outcome = [state |-> "Success", error |-> NoError],
          !.settledAt = t]
  ELSE [s EXCEPT
          !.pc = "threw",
          !.outcome = [state |-> "Failure", error |-> s.promise.reason],
          !.settledAt = t]

\* ------------------------------------------------------------ event loop
\* a settled promise whose continuation is queued, and an 'error' that a
\* destroyed write stream is about to emit: both run before any timer or
\* stream event, the emission of 'error' (next tick) first
ContinuationQueued(s) == s.pc = "awaiting" /\ s.promise.state # "pending"
ErrorQueued(s) == s.writeStream.errorPending
NoMicrotask ==
  \A c \in CallIds : ~ContinuationQueued(Call(c)) /\ ~ErrorQueued(Call(c))
TimerDue(s) == s.timeout.state = "armed" /\ now >= s.timeout.deadline

Init ==
  /\ calls = [c \in CallIds |-> IdleCall]
  /\ now = 0
  /\ env \in EnvValues
  /\ callable = {1}

\* a call that opens the write stream before the directory exists
DownloadOpensFirst(c) ==
  /\ c \in callable
  /\ Call(c).pc = "idle"
  /\ NoMicrotask
  /\ \E url \in URLs, quiet \in QuietValues, cb \in BOOLEAN :
       calls' = [calls EXCEPT ![c] =
                   [IdleCall EXCEPT !.pc = "mkdirp", !.url = url, !.quiet = quiet,
                                    !.getProgressCallback = cb, !.calledAt = now,
                                    !.writeStream.state = "open"]]
  /\ UNCHANGED <<now, env, callable>>

\* lines 26-39: download(url, targetFilePath, options) up to the await of mkdirp
Download(c) ==
  /\ c \in callable
  /\ Call(c).pc = "idle"
  /\ NoMicrotask
  /\ \E url \in URLs, quiet \in QuietValues, cb \in BOOLEAN :
       calls' = [calls EXCEPT ![c] =
                   [IdleCall EXCEPT !.pc = "mkdirp", !.url = url, !.quiet = quiet,
                                    !.getProgressCallback = cb, !.calledAt = now]]
  /\ UNCHANGED <<now, env, callable>>

\* line 39 succeeds; lines 40-84 run up to the await
MkdirpDone(c) ==
  /\ Call(c).pc = "mkdirp"
  /\ NoMicrotask
  /\ \E total \in {0, MaxBytes} :
       calls' = [calls EXCEPT ![c] = OpenStreams(@, now, env, total)]
  /\ UNCHANGED <<now, env, callable>>

\* line 39 throws: the call rejects, nothing else has been created
MkdirpFails(c) ==
  /\ Call(c).pc = "mkdirp"
  /\ NoMicrotask
  /\ calls' = [calls EXCEPT ![c] =
                 [@ EXCEPT !.pc = "threw",
                           !.outcome = [state |-> "Failure", error |-> MkdirpError],
                           !.settledAt = now]]
  /\ UNCHANGED <<now, env, callable>>

\* the timer armed at line 44 expires
TimerFires(c) ==
  /\ NoMicrotask
  /\ TimerDue(Call(c))
  /\ calls' = [calls EXCEPT ![c] = TimeoutCallback(@, now)]
  /\ UNCHANGED <<now, env, callable>>

\* the download stream emits 'downloadProgress' with its cumulative counts:
\* once at the start, and then whenever more bytes have arrived
DownloadProgress(c) ==
  /\ NoMicrotask
  /\ Call(c).downloadStream.state = "open"
  /\ Len(Call(c).progressEvents) < MaxProgress
  /\ IF Call(c).progressEvents = <<>>
     THEN TRUE
     ELSE Call(c).progressEvents[Len(Call(c).progressEvents)].transferred
            < Call(c).downloadStream.received
  /\ LET progress == [transferred |-> Call(c).downloadStream.received,
                      total |-> Call(c).downloadStream.total]
     IN calls' = [calls EXCEPT ![c] =
                    [OnDownloadProgress(@, progress) EXCEPT
                       !.progressEvents = Append(@, progress)]]
  /\ UNCHANGED <<now, env, callable>>

\* the promise returned by getProgressCallback settles; a rejection rejects
\* the promise of the async listener of line 61, which nobody observes
CallbackSettles(c) ==
  /\ NoMicrotask
  /\ \E i \in 1..Len(Call(c).callbacks), result \in {"resolved", "rejected"} :
       /\ Call(c).callbacks[i].state = "pending"
       /\ calls' = [calls EXCEPT ![c].callbacks[i].state = result]
  /\ UNCHANGED <<now, env, callable>>

\* line 83: one chunk flows from the download stream, through the pipe if it
\* is still attached, into the write stream
TransportData(c) ==
  /\ NoMicrotask
  /\ Call(c).downloadStream.state = "open"
  /\ Call(c).downloadStream.received < MaxBytes
  /\ calls' = [calls EXCEPT ![c] =
        [@ EXCEPT
           !.downloadStream.received = @ + 1,
           !.writeStream.written =
              IF Call(c).downloadStream.piped
                 /\ Call(c).writeStream.state = "open"
                 /\ ~Call(c).writeStream.destroyed
              THEN @ + 1 ELSE @]]
  /\ UNCHANGED <<now, env, callable>>

\* an end of the download stream that resolves the call by itself
TransportEndResolves(c) ==
  /\ NoMicrotask
  /\ Call(c).downloadStream.state = "open"
  /\ Call(c).downloadStream.received = MaxBytes
  /\ calls' = [calls EXCEPT ![c] =
        [@ EXCEPT
           !.downloadStream.state = "ended",
           !.promise = Resolve(@),
           !.writeStream.state =
              IF Call(c).downloadStream.piped /\ @ = "open"
                 /\ ~Call(c).writeStream.destroyed
              THEN "ending" ELSE @]]
  /\ UNCHANGED <<now, env, callable>>

\* line 83: the download stream ends and the pipe ends the write stream
TransportEnd(c) ==
  /\ NoMicrotask
  /\ Call(c).downloadStream.state = "open"
  /\ Call(c).downloadStream.received = MaxBytes
  /\ calls' = [calls EXCEPT ![c] =
        [@ EXCEPT
           !.downloadStream.state = "ended",
           !.writeStream.state =
              IF Call(c).downloadStream.piped /\ @ = "open"
                 /\ ~Call(c).writeStream.destroyed
              THEN "ending" ELSE @]]
  /\ UNCHANGED <<now, env, callable>>

\* the download stream emits 'error' (lines 70-79) and is destroyed by got
TransportError(c) ==
  /\ NoMicrotask
  /\ Call(c).downloadStream.state = "open"
  /\ \E error \in TransportErrors(Call(c).url) :
       calls' = [calls EXCEPT ![c] =
          [OnDownloadStreamError(@, error) EXCEPT
             !.downloadStream.state = "errored",
             !.downloadStream.error = Classify(error)]]
  /\ UNCHANGED <<now, env, callable>>

\* line 40: the file cannot be opened or written; the stream destroys itself
\* and will emit 'error' and 'close'
SinkFails(c) ==
  /\ NoMicrotask
  /\ Call(c).writeStream.state \in {"open", "ending"}
  /\ ~Call(c).writeStream.destroyed
  /\ calls' = [calls EXCEPT ![c].writeStream = Destroy(@, SinkError)]
  /\ UNCHANGED <<now, env, callable>>

\* the write stream emits 'error': line 80, and the listener that pipe (line
\* 83) installed detaches the download stream without destroying it
SinkErrorEvent(c) ==
  /\ ErrorQueued(Call(c))
  /\ calls' = [calls EXCEPT ![c] =
        [OnWriteStreamError(@, Call(c).writeStream.error) EXCEPT
           !.writeStream.errorPending = FALSE,
           !.downloadStream.piped = FALSE]]
  /\ UNCHANGED <<now, env, callable>>

\* the write stream emits 'close' (line 81): after it was ended by the pipe,
\* or after the 'error' of a destroyed stream
SinkCloseEvent(c) ==
  /\ NoMicrotask
  /\ ~Call(c).writeStream.closeEmitted
  /\ \/ Call(c).writeStream.state = "ending" /\ ~Call(c).writeStream.destroyed
     \/ Call(c).writeStream.destroyed /\ ~Call(c).writeStream.errorPending
  /\ calls' = [calls EXCEPT ![c] =
        [OnWriteStreamClose(@) EXCEPT
           !.writeStream.state = "closed",
           !.writeStream.closeEmitted = TRUE]]
  /\ UNCHANGED <<now, env, callable>>

\* a continuation whose clearTimeout reaches a timer shared by all calls (the
\* handle kept in a field of the downloader, not in a local of the call)
ResumeSharedTimeout(c) ==
  /\ ContinuationQueued(Call(c))
  /\ \A d \in CallIds : ~ErrorQueued(Call(d))
  /\ calls' = [d \in CallIds |->
                 IF d = c
                 THEN AfterPromise(Call(c), now)
                 ELSE IF Call(c).promise.state = "resolved"
                           /\ Call(d).timeout.state = "armed"
                      THEN [Call(d) EXCEPT !.timeout.state = "cleared"]
                      ELSE Call(d)]
  /\ UNCHANGED <<now, env, callable>>

\* lines 59, 86-90: the async function resumes after the promise settled
Resume(c) ==
  /\ ContinuationQueued(Call(c))
  /\ \A d \in CallIds : ~ErrorQueued(Call(d))
  /\ calls' = [calls EXCEPT ![c] = AfterPromise(@, now)]
  /\ UNCHANGED <<now, env, callable>>

\* a call is running, or has left its timer armed
Busy(s) == s.pc \in {"mkdirp", "awaiting"} \/ s.timeout.state = "armed"

\* time passes; a timer that is due fires before the clock moves on
Tick ==
  /\ NoMicrotask
  /\ \E c \in CallIds : Busy(Call(c))
  /\ now + TickSeconds <= MaxTime
  /\ \A c \in CallIds : ~TimerDue(Call(c))
  /\ now' = now + TickSeconds
  /\ UNCHANGED <<calls, env, callable>>

Next ==
  \/ \E c \in CallIds : Download(c)
  \/ \E c \in CallIds : MkdirpDone(c)
  \/ \E c \in CallIds : MkdirpFails(c)
  \/ \E c \in CallIds : TimerFires(c)
  \/ \E c \in CallIds : DownloadProgress(c)
  \/ \E c \in CallIds : CallbackSettles(c)
  \/ \E c \in CallIds : TransportData(c)
  \/ \E c \in CallIds : TransportEnd(c)
  \/ \E c \in CallIds : TransportError(c)
  \/ \E c \in CallIds : SinkFails(c)
  \/ \E c \in CallIds : SinkErrorEvent(c)
  \/ \E c \in CallIds : SinkCloseEvent(c)
  \/ \E c \in CallIds : Resume(c)
  \/ Tick

Spec == Init /\ [][Next]_vars

\* ---------------------------------------------------------------- claims

\* C1: whenever a download call has settled, with success or with failure,
\* its activation timer is no longer armed.
C1_TimerCancelledWhenSettled ==
  \A c \in CallIds : Settled(Call(c)) => Call(c).timeout.state # "armed"

\* C2: a call made with quiet set to true never arms the activation timer and
\* never gets a progress indicator, whatever the opt-out is.
C2_QuietNeverArmsTimer ==
  \A c \in CallIds :
    Call(c).quiet = "true" =>
      Call(c).timeout.state = "none" /\ ~Call(c).bar.exists

\* C3: with ELECTRON_GET_NO_PROGRESS non-empty no call ever gets a progress
\* indicator, whatever its quiet option is.
C3_OptOutNoIndicator ==
  TruthyEnv(env) => \A c \in CallIds : ~Call(c).bar.exists

\* C4: a call that settles after its progress callback has failed settles as
\* Failure with the error of the callback, never as Success, and its write
\* stream is destroyed.
C4_CallbackFailureFailsCall ==
  [][\A c \in CallIds :
       ((\E i \in 1..Len(Call(c).callbacks) : Call(c).callbacks[i].state = "rejected")
        /\ ~Settled(Call(c))
        /\ Settled(calls'[c]))
       => /\ calls'[c].outcome = [state |-> "Failure", error |-> CallbackError]
          /\ calls'[c].writeStream.destroyed]_vars

C6_SettlesOnce ==
  [][\A c \in CallIds :
       /\ Call(c).promise.state # "pending" => calls'[c].promise = Call(c).promise
       /\ Settled(Call(c)) => calls'[c].outcome = Call(c).outcome]_vars

\* a call rejected by a transport error whose destroyed write stream has
\* since emitted 'error' and 'close'
C6_CloseAfterTransportError ==
  \E c \in CallIds :
    /\ Call(c).outcome.state = "Failure"
    /\ Call(c).outcome.error = Call(c).downloadStream.error
    /\ Call(c).downloadStream.state = "errored"
    /\ Call(c).writeStream.closeEmitted

\* C7: when a call has settled, each stream it created is closed.
C7_StreamsClosedWhenSettled ==
  \A c \in CallIds :
    Settled(Call(c)) =>
      /\ Call(c).writeStream.state # "none" => WriteStreamClosed(Call(c).writeStream)
      /\ Call(c).downloadStream.state # "none"
           => DownloadStreamClosed(Call(c).downloadStream)

\* C8: every 'error' of the download stream leaves the write stream destroyed
\* with that error and the promise of the call rejected with that error.
C8_TransportErrorDestroysAndRejects ==
  [][\A c \in CallIds :
       (Call(c).downloadStream.state = "open"
        /\ calls'[c].downloadStream.state = "errored")
       => /\ calls'[c].writeStream.destroyed
          /\ calls'[c].writeStream.error = calls'[c].downloadStream.error
          /\ calls'[c].promise.state = "rejected"
          /\ calls'[c].promise.reason = calls'[c].downloadStream.error]_vars

\* C9 (as claimed): a call that failed with a 404 response has the requested
\* URL in the message of its error.
C9_404MessageHasRequestedUrl ==
  \A c \in CallIds :
    (/\ Call(c).outcome.state = "Failure"
     /\ Call(c).outcome.error.kind = "HTTPError"
     /\ Call(c).outcome.error.statusCode = 404)
    => Contains(Call(c).outcome.error.message, Call(c).url)

\* C9 (amended): a call that failed with a 404 response has the URL of that
\* response in the message of its error.
C9_404MessageHasResponseUrl ==
  \A c \in CallIds :
    (/\ Call(c).outcome.state = "Failure"
     /\ Call(c).outcome.error.kind = "HTTPError"
     /\ Call(c).outcome.error.statusCode = 404)
    => Contains(Call(c).outcome.error.message, Call(c).outcome.error.url)

\* a call that failed with a 404 response that came from another URL
C9_Failed404AfterRedirect ==
  \E c \in CallIds :
    /\ Call(c).outcome.state = "Failure"
    /\ Call(c).outcome.error.kind = "HTTPError"
    /\ Call(c).outcome.error.statusCode = 404
    /\ Call(c).outcome.error.url # Call(c).url

\* C10: a call that settled less than the activation delay after it was made
\* has no progress indicator, then or later.
C10_ShortCallNoIndicator ==
  \A c \in CallIds :
    (Settled(Call(c))
     /\ Call(c).settledAt - Call(c).calledAt < PROGRESS_BAR_DELAY_IN_SECONDS)
    => ~Call(c).bar.exists

\* the step in which the activation timer of call c fires
TimerFiredIn(c) ==
  Call(c).timeout.state = "armed" /\ calls'[c].timeout.state = "fired"

\* C11: when the timer of a call made with quiet not set and the opt-out unset
\* fires while the transfer is in progress, the call has exactly one progress
\* indicator; no call ever has more than one.
C11_ExactlyOneIndicator ==
  [][\A c \in CallIds :
       /\ calls'[c].barsCreated <= 1
       /\ (/\ TimerFiredIn(c)
           /\ Call(c).pc = "awaiting"
           /\ ~TruthyQuiet(Call(c).quiet)
           /\ ~TruthyEnv(env))
          => calls'[c].bar.exists /\ calls'[c].barsCreated = 1]_vars

\* the indicator was created during the transfer and a later progress event
\* has updated it
C11_IndicatorUpdatedAfterCreation ==
  \E c \in CallIds :
    /\ ~TruthyQuiet(Call(c).quiet)
    /\ ~TruthyEnv(env)
    /\ Call(c).pc = "awaiting"
    /\ Call(c).barsCreated = 1
    /\ Call(c).bar.curr.tag = "number"
    /\ Call(c).bar.curr.val > 0

\* the step in which the progress indicator of call c is created
BarCreatedIn(c) == ~Call(c).bar.exists /\ calls'[c].bar.exists

\* the percent of the most recent transfer-progress event, 0 before the first
LastPercent(s) ==
  IF s.progressEvents = <<>>
  THEN Num(0)
  ELSE Percent(s.progressEvents[Len(s.progressEvents)])

\* C12: the indicator is created with the percent of the most recent
\* transfer-progress event received before the timer fired, or with 0 if no
\* event has been received.
C12_IndicatorSeededWithLastPercent ==
  [][\A c \in CallIds :
       BarCreatedIn(c) => calls'[c].bar.curr = LastPercent(Call(c))]_vars

\* C13: a call whose directory creation failed has failed with that error,
\* and has no download stream, no write stream and no timer.
C13_MkdirpFailureBeforeAnyActivity ==
  \A c \in CallIds :
    Call(c).outcome.error = MkdirpError =>
      /\ Call(c).outcome.state = "Failure"
      /\ Call(c).pc = "threw"
      /\ Call(c).downloadStream.state = "none"
      /\ Call(c).writeStream.state = "none"
      /\ Call(c).timeout.state = "none"
      /\ Call(c).promise.state = "pending"

\* a call that failed in mkdirp
C13_MkdirpFailed ==
  \E c \in CallIds :
    Call(c).outcome = [state |-> "Failure", error |-> MkdirpError]

\* the step in which call c receives a transfer-progress event, and the event
ProgressReceivedIn(c) ==
  Len(calls'[c].progressEvents) = Len(Call(c).progressEvents) + 1
ReceivedProgress(c) == calls'[c].progressEvents[Len(calls'[c].progressEvents)]

\* what handling an event leaves alone, and the invocation of the callback
ProgressHandledQuietly(c) ==
  /\ calls'[c].promise = Call(c).promise
  /\ calls'[c].outcome = Call(c).outcome
  /\ calls'[c].pc = Call(c).pc
  /\ calls'[c].writeStream = Call(c).writeStream
  /\ calls'[c].downloadStream = Call(c).downloadStream
  /\ calls'[c].callbacks =
       IF Call(c).getProgressCallback
       THEN Append(Call(c).callbacks,
                   [progress |-> ReceivedProgress(c), state |-> "pending"])
       ELSE Call(c).callbacks

\* C15 (as claimed): handling a transfer-progress event whose total is 0
\* fails nothing, invokes the callback if there is one, and updates the
\* indicator, if there is one, with a not-a-number value.
C15_ZeroTotalGivesNaN ==
  [][\A c \in CallIds :
       (ProgressReceivedIn(c) /\ ReceivedProgress(c).total = 0)
       => /\ ProgressHandledQuietly(c)
          /\ Call(c).bar.exists => calls'[c].bar.curr = NaN]_vars

\* C15 (amended): handling a transfer-progress event whose total is 0 fails
\* nothing, invokes the callback if there is one, and updates the indicator,
\* if there is one, with not-a-number when nothing has been transferred and
\* with Infinity otherwise.
C15_ZeroTotalGivesNaNOrInfinity ==
  [][\A c \in CallIds :
       (ProgressReceivedIn(c) /\ ReceivedProgress(c).total = 0)
       => /\ ProgressHandledQuietly(c)
          /\ Call(c).bar.exists =>
               calls'[c].bar.curr =
                 IF ReceivedProgress(c).transferred = 0 THEN NaN ELSE Infinity]_vars

\* an indicator updated by an event with bytes transferred and total 0, whose
\* callback was invoked
C15_IndicatorAtInfinity ==
  \E c \in CallIds :
    /\ Call(c).bar.exists
    /\ Call(c).bar.curr = Infinity
    /\ Call(c).getProgressCallback
    /\ Call(c).callbacks # <<>>
    /\ Call(c).callbacks[Len(Call(c).callbacks)].progress.total = 0
    /\ Call(c).callbacks[Len(Call(c).callbacks)].progress.transferred > 0

\* C16: the step in which the timer of a call fires changes nothing but the
\* indicator and the state of the timer itself: streams, bytes written,
\* completion flag, promise, outcome, the clock and every other call stay.
C16_TimerChangesOnlyIndicator ==
  [][\A c \in CallIds :
       TimerFiredIn(c) =>
         /\ calls'[c] = [Call(c) EXCEPT !.bar = calls'[c].bar,
                                        !.barsCreated = calls'[c].barsCreated,
                                        !.timeout.state = "fired"]
         /\ \A d \in CallIds \ {c} : calls'[d] = Call(d)
         /\ now' = now]_vars

\* a transfer that went on after its indicator appeared and succeeded in full
C16_SuccessAfterIndicator ==
  \E c \in CallIds :
    /\ Call(c).bar.exists
    /\ Call(c).outcome.state = "Success"
    /\ Call(c).writeStream.written = MaxBytes

\* C17: the promise of a call is resolved, and the call is a Success, only
\* when the write stream has emitted 'close' and neither stream has had an
\* error; the end of the download stream alone resolves nothing.
C17_SuccessOnlyAfterClose ==
  \A c \in CallIds :
    (Call(c).promise.state = "resolved" \/ Call(c).outcome.state = "Success")
    => /\ Call(c).writeStream.closeEmitted
       /\ ~Call(c).writeStream.destroyed
       /\ Call(c).downloadStream.state = "ended"

\* a Success, after an ended download stream had waited for the 'close'
C17_SuccessAfterClose ==
  \E c \in CallIds :
    /\ Call(c).outcome.state = "Success"
    /\ Call(c).writeStream.closeEmitted
    /\ Call(c).downloadStream.state = "ended"

\* C18: the start time of a progress indicator is the time at which the timer
\* was armed, one delay before its deadline, and earlier than the time at
\* which the timer fired and the indicator was created.
C18_StartIsArmingTime ==
  \A c \in CallIds :
    Call(c).bar.exists =>
      /\ Call(c).bar.start = Call(c).timeout.start
      /\ Call(c).bar.start = Call(c).timeout.deadline - PROGRESS_BAR_DELAY_IN_SECONDS
      /\ Call(c).bar.start < Call(c).bar.created

\* an indicator of a call whose timer was armed some time after the call
C18_IndicatorOfLateArmedTimer ==
  \E c \in CallIds :
    /\ Call(c).bar.exists
    /\ Call(c).calledAt < Call(c).bar.start

\* C19: a call that returned successfully has its completion flag set and
\* its timer not armed; it has an indicator only if the timer fired before
\* the return; and wherever the completion flag is set, running the timer
\* callback creates no indicator.
C19_NoIndicatorAfterSuccess ==
  \A c \in CallIds :
    /\ Call(c).outcome.state = "Success" =>
         /\ Call(c).downloadCompleted
         /\ Call(c).timeout.state \in {"none", "cleared", "fired"}
         /\ Call(c).bar.exists =>
              Call(c).timeout.state = "fired" /\ Call(c).bar.created <= Call(c).settledAt
    /\ Call(c).downloadCompleted =>
         /\ TimeoutCallback(Call(c), now).bar = Call(c).bar
         /\ TimeoutCallback(Call(c), now).barsCreated = Call(c).barsCreated

\* a successful call whose armed timer was cleared before it could fire
C19_SuccessWithTimerCleared ==
  \E c \in CallIds :
    /\ Call(c).outcome.state = "Success"
    /\ Call(c).timeout.state = "cleared"
    /\ ~Call(c).bar.exists

\* The runs looked at for termination: the clock runs for one delay, the
\* download stream fails with a plain error, and an invocation of the progress
\* callback either completes or stays pending for ever.
LiveScope ==
  /\ now <= PROGRESS_BAR_DELAY_IN_SECONDS
  /\ \A c \in CallIds :
       /\ Call(c).downloadStream.error \in {NoError, RequestError}
       /\ \A i \in 1..Len(Call(c).callbacks) :
            Call(c).callbacks[i].state # "rejected"

NextLive ==
  \/ \E c \in CallIds : Download(c) /\ LiveScope'
  \/ \E c \in CallIds : MkdirpDone(c) /\ LiveScope'
  \/ \E c \in CallIds : MkdirpFails(c) /\ LiveScope'
  \/ \E c \in CallIds : TimerFires(c) /\ LiveScope'
  \/ \E c \in CallIds : DownloadProgress(c) /\ LiveScope'
  \/ \E c \in CallIds : CallbackSettles(c) /\ LiveScope'
  \/ \E c \in CallIds : TransportData(c) /\ LiveScope'
  \/ \E c \in CallIds : TransportEnd(c) /\ LiveScope'
  \/ \E c \in CallIds : TransportError(c) /\ LiveScope'
  \/ \E c \in CallIds : SinkFails(c) /\ LiveScope'
  \/ \E c \in CallIds : SinkErrorEvent(c) /\ LiveScope'
  \/ \E c \in CallIds : SinkCloseEvent(c) /\ LiveScope'
  \/ \E c \in CallIds : Resume(c) /\ LiveScope'
  \/ Tick /\ LiveScope'

\* The event loop runs every queued continuation and emission; mkdirp
\* completes, the download stream goes on until it ends or fails, and the
\* write stream emits its 'close'.  The progress callback and the clock are
\* under no obligation.
Fairness ==
  \A c \in CallIds :
    /\ WF_vars((MkdirpDone(c) \/ MkdirpFails(c)) /\ LiveScope')
    /\ WF_vars((TransportData(c) \/ TransportEnd(c) \/ TransportError(c)) /\ LiveScope')
    /\ WF_vars(SinkErrorEvent(c) /\ LiveScope')
    /\ WF_vars(SinkCloseEvent(c) /\ LiveScope')
    /\ WF_vars(Resume(c) /\ LiveScope')

LiveSpec == Init /\ [][NextLive]_vars /\ Fairness

\* C20: every call that has been made eventually settles, whether or not the
\* invocations of its progress callback ever complete.
C20_EventuallySettles ==
  \A c \in CallIds : (Call(c).pc = "mkdirp") ~> Settled(Call(c))

\* a settled call with an invocation of its callback still pending
C20_SettledWithCallbackPending ==
  \E c \in CallIds :
    /\ Settled(Call(c))
    /\ \E i \in 1..Len(Call(c).callbacks) : Call(c).callbacks[i].state = "pending"

\* ------------------------------------------------------ two calls at once
\* progress events delivered to a call when two calls run at once
TwoCallProgress == 1

\* Two calls of one process, made with different options: call 1 with a
\* progress callback, call 2 without options.  The clock runs for one delay,
\* the responses have no known length, the streams fail with plain errors,
\* the callback does not fail, and only the call with a callback is sent
\* progress events.
TwoCallScope ==
  /\ now <= PROGRESS_BAR_DELAY_IN_SECONDS
  /\ \A c \in CallIds :
       /\ Call(c).pc # "idle" =>
            /\ Call(c).quiet = "absent"
            /\ Call(c).getProgressCallback <=> c = 1
       /\ Len(Call(c).progressEvents)
            <= (IF Call(c).getProgressCallback THEN TwoCallProgress ELSE 0)
       /\ Call(c).downloadStream.total = 0
       /\ Call(c).downloadStream.error \in {NoError, RequestError}
       /\ \A i \in 1..Len(Call(c).callbacks) :
            Call(c).callbacks[i].state # "rejected"

InitTwo ==
  /\ calls = [c \in CallIds |-> IdleCall]
  /\ now = 0
  /\ env = ""
  /\ callable = CallIds

NextTwo ==
  \/ \E c \in CallIds : Download(c) /\ TwoCallScope'
  \/ \E c \in CallIds : MkdirpDone(c) /\ TwoCallScope'
  \/ \E c \in CallIds : MkdirpFails(c) /\ TwoCallScope'
  \/ \E c \in CallIds : TimerFires(c) /\ TwoCallScope'
  \/ \E c \in CallIds : DownloadProgress(c) /\ TwoCallScope'
  \/ \E c \in CallIds : CallbackSettles(c) /\ TwoCallScope'
  \/ \E c \in CallIds : TransportData(c) /\ TwoCallScope'
  \/ \E c \in CallIds : TransportEnd(c) /\ TwoCallScope'
  \/ \E c \in CallIds : TransportError(c) /\ TwoCallScope'
  \/ \E c \in CallIds : SinkFails(c) /\ TwoCallScope'
  \/ \E c \in CallIds : SinkErrorEvent(c) /\ TwoCallScope'
  \/ \E c \in CallIds : SinkCloseEvent(c) /\ TwoCallScope'
  \/ \E c \in CallIds : Resume(c) /\ TwoCallScope'
  \/ Tick /\ TwoCallScope'

SpecTwo == InitTwo /\ [][NextTwo]_vars

\* C14: every step of two concurrent calls is an event of one of them and
\* changes the state of that call only: timer, completion flag, indicator,
\* streams, promise and outcome of the other call stay as they were.
C14_CallsIsolated ==
  [][\A c \in CallIds :
       calls'[c] # Call(c) => \A d \in CallIds \ {c} : calls'[d] = Call(d)]_vars

\* both calls in progress at the same time: the timer of call 1 has fired
\* and created its indicator, the callback of call 1 is pending, and call 2
\* still has its timer armed, no indicator and no outcome
C14_OneTimerFiredOtherArmed ==
  /\ Call(1).pc = "awaiting"
  /\ Call(1).timeout.state = "fired"
  /\ Call(1).bar.exists
  /\ Call(1).callbacks # <<>>
  /\ Call(2).pc = "awaiting"
  /\ Call(2).timeout.state = "armed"
  /\ ~Call(2).bar.exists
  /\ Call(2).downloadStream.received > 0
====
